---- MODULE Spec2Model ----
(***************************************************************************)
(* Model of src/libply/built-in/memory.c: the built-in operators strcmp,   *)
(* mem, str, ->, ., u*, [], :struct, = and delete of the ply compiler.     *)
(* The code generators are modelled by the instruction sequences they      *)
(* emit, and the emitted sequences are run on a small byte-addressed       *)
(* machine (registers, one stack frame, one hash map).                     *)
(***************************************************************************)
EXTENDS Integers, Sequences, FiniteSets, TLC

VARIABLES
    scen,     \* the input of the run: the expression compiled and its data
    todo,     \* the hooks the tree walk still has to invoke, in order
    irs,      \* node -> storage state of its symbol (struct irstate)
    sp,       \* lowest stack offset reserved so far (ir_alloc_stack)
    nreg,     \* next free register (ir_alloc_register)
    nlabel,   \* next free label (ir_alloc_label)
    prog,     \* the instructions emitted so far
    pc,       \* index of the next instruction to run, -1 after a fault
    regs,     \* register file of the machine
    mem,      \* byte-addressed memory of the machine
    kmap,     \* contents of the hash map: key -> value
    types,    \* the global type registry: type name -> descriptor
    ty,       \* node -> type of its symbol (sym->type), NoType while unset
    virt,     \* the string nodes marked virtual (string.virtual)
    ast,      \* the expression tree or graph a pass works on
    ret,      \* what the last hook returned: "ok", "EINVAL", or how it died
    ghost     \* history kept for the properties only

vars == <<scen, todo, irs, sp, nreg, nlabel, prog, pc, regs, mem, kmap, types, ty, virt, ast,
         ret, ghost>>

cgvars == <<irs, sp, nreg, nlabel, prog>>
mvars  == <<pc, regs, mem, kmap>>
tvars  == <<types, ty, virt, ast>>

-----------------------------------------------------------------------------
(* Bounds of the model *)

MaxLen == 2          \* longest string compared by strcmp

ByteVals == {0, 1, 2, 195}   \* bytes strings are drawn from (195 = 0xC3)

-----------------------------------------------------------------------------
(* Registers named by the source *)

BPF_REG_0 == 0
BPF_REG_1 == 1
BPF_REG_2 == 2
BPF_REG_3 == 3
BPF_REG_4 == 4
BPF_REG_BP == 10

FirstFreeReg == 6            \* registers 6..9 are handed out to symbols

(* Memory layout of the machine: addresses 0 .. MemTop.  Address 0 is NULL; *)
(* the frame is [FrameTop - FrameSize, FrameTop); what lies at FrameTop and  *)
(* above belongs to the caller.                                              *)
FrameSize == 4 * 8
FrameTop  == 8 * 8
MemTop    == FrameTop + 7
Addrs     == 0 .. MemTop
ExtBase   == 8               \* a kernel object read through probe_read
MapBase   == 10 * 10         \* map_lookup_elem returns MapBase + 8 * slot

Min(x, y) == IF x < y THEN x ELSE y

-----------------------------------------------------------------------------
(* Little-endian loads and stores *)

RECURSIVE HornerLE(_, _, _, _)
HornerLE(m, addr, w, bias) ==
    IF w = 0 THEN 0
    ELSE (m[addr] - bias) + 256 * HornerLE(m, addr + 1, w - 1, bias)

LoadLE(m, addr, w) == HornerLE(m, addr, w, 0)

\* the w bytes at addr read as a two's complement number
SignedLE(m, addr, w) ==
    IF m[addr + w - 1] >= 128 THEN HornerLE(m, addr, w, 255) - 1
    ELSE HornerLE(m, addr, w, 0)

RECURSIVE ByteOf(_, _)
ByteOf(v, i) == IF i = 0 THEN v % 256 ELSE ByteOf(v \div 256, i - 1)

StoreLE(m, addr, w, v) ==
    [x \in DOMAIN m |-> IF addr <= x /\ x < addr + w THEN ByteOf(v, x - addr) ELSE m[x]]

Fill(m, addr, len, byte) ==
    [x \in DOMAIN m |-> IF addr <= x /\ x < addr + len THEN byte ELSE m[x]]

-----------------------------------------------------------------------------
(* Instructions (the macros of ply/ir.h) *)

Insn(op, w, dst, src, off, imm, fn) ==
    [op |-> op, w |-> w, dst |-> dst, src |-> src, off |-> off, imm |-> imm, fn |-> fn]

LDX(w, off, dst, src)      == Insn("LDX", w, dst, src, off, 0, "")
STX(w, off, dst, src)      == Insn("STX", w, dst, src, off, 0, "")
ST_IMM(w, off, imm, dst)   == Insn("ST", w, dst, 0, off, imm, "")
MOV(dst, src)              == Insn("MOV", 8, dst, src, 0, 0, "")
MOV_IMM(imm, dst)          == Insn("MOVI", 8, dst, 0, 0, imm, "")
ALU(aop, dst, src)         == Insn("ALU", 8, dst, src, 0, 0, aop)
ALU_IMM(aop, imm, dst)     == Insn("ALUI", 8, dst, 0, 0, imm, aop)
JMP_IMM(jop, imm, lbl, dst) == Insn("JMPI", 8, dst, 0, lbl, imm, jop)
CALL(fn)                   == Insn("CALL", 0, 0, 0, 0, 0, fn)
LABEL(lbl)                 == Insn("LABEL", 0, 0, 0, lbl, 0, "")
LDMAP(dst, map)            == Insn("LDMAP", 8, dst, 0, 0, 0, map)

\* ir_emit_ldbp: dst = frame base + offset
ir_emit_ldbp(dst, off) == <<MOV(dst, BPF_REG_BP), ALU_IMM("ADD", off, dst)>>

-----------------------------------------------------------------------------
(* Types.  A struct type * of the source is the name of a descriptor in the *)
(* registry; NoType is the NULL pointer.                                     *)

NoType == ""

TDesc(tt, size, align, of, key, fields) ==
    [ttype |-> tt, size |-> size, align |-> align, of |-> of, key |-> key, fields |-> fields]

Field(name, type) == [name |-> name, type |-> type]

ArrayName(elem, len) == elem \o "[" \o ToString(len) \o "]"

type_base(t)    == t            \* no typedefs are modelled: nothing to strip

AlignUp(x, a) == IF x % a = 0 THEN x ELSE x + (a - (x % a))

SizeIn(reg, t)  == IF t = NoType THEN -1 ELSE reg[t].size
AlignIn(reg, t) == reg[t].align

\* offset of field number i (from 1) of a field list laid out with natural alignment
RECURSIVE FieldOffsetIn(_, _, _)
FieldOffsetIn(reg, fields, i) ==
    IF i = 1 THEN 0
    ELSE AlignUp(FieldOffsetIn(reg, fields, i - 1) + SizeIn(reg, fields[i - 1].type),
                 AlignIn(reg, fields[i].type))

RECURSIVE MaxAlignIn(_, _, _)
MaxAlignIn(reg, fields, i) ==
    IF i = 0 THEN 1
    ELSE LET m == MaxAlignIn(reg, fields, i - 1)
             a == AlignIn(reg, fields[i].type)
         IN IF a > m THEN a ELSE m

\* descriptor of a struct: its size is the end of the last field rounded up to
\* the largest alignment of a field
StructDescIn(reg, fields) ==
    LET n  == Len(fields)
        al == MaxAlignIn(reg, fields, n)
        sz == IF n = 0 THEN 0
              ELSE AlignUp(FieldOffsetIn(reg, fields, n) + SizeIn(reg, fields[n].type), al)
    IN TDesc("T_STRUCT", sz, al, NoType, NoType, fields)

type_sizeof(t)  == SizeIn(types, t)
type_alignof(t) == AlignIn(types, t)

FieldIndex(fields, name) ==
    IF \E i \in 1 .. Len(fields) : fields[i].name = name
    THEN CHOOSE i \in 1 .. Len(fields) : fields[i].name = name
    ELSE 0

\* tfields_get: the index of the member, 0 for NULL
tfields_get(fields, name) == FieldIndex(fields, name)

\* type_offsetof: -1 when the struct has no such member
type_offsetof(t, name) ==
    LET fs == types[t].fields
        i  == FieldIndex(fs, name)
    IN IF i = 0 THEN -1 ELSE FieldOffsetIn(types, fs, i)

\* the types every run starts with
ScalarTypes == [t \in {"char", "short", "int", "long"} |->
                   LET sz == CASE t = "char" -> 1 [] t = "short" -> 2
                               [] t = "int" -> 4 [] OTHER -> 8
                   IN TDesc("T_SCALAR", sz, sz, NoType, NoType, <<>>)]

StringLens == 1 .. (MaxLen + 1)

StringTypes == [t \in {ArrayName("char", k) : k \in StringLens} |->
                   LET k == CHOOSE k \in StringLens : ArrayName("char", k) = t
                   IN TDesc("T_ARRAY", k, 1, "char", NoType, <<>>)]

BaseTypes ==
    LET prim == ScalarTypes @@ StringTypes
                  @@ [t \in {"void"} |-> TDesc("T_VOID", 0, 1, NoType, NoType, <<>>)]
        S    == StructDescIn(prim, <<Field("f0", "char"), Field("f1", "int"),
                                     Field("f2", "char[2]")>>)
        K    == StructDescIn(prim, <<Field("f0", "int")>>)
    IN prim @@ [t \in {"S"} |-> S] @@ [t \in {"K"} |-> K]
            @@ [t \in {"S*"} |-> TDesc("T_POINTER", 8, 8, "S", NoType, <<>>)]
            @@ [t \in {"int*"} |-> TDesc("T_POINTER", 8, 8, "int", NoType, <<>>)]

-----------------------------------------------------------------------------
(* Storage of a symbol (struct irstate) and the storage allocator *)

NoIrs == [loc |-> "NONE", reg |-> 0, stack |-> 0, size |-> 0, imm |-> 0,
          hstack |-> FALSE, hlval |-> FALSE, hdot |-> FALSE]

sym_in_reg(i)   == i.loc = "REG"
sym_on_stack(i) == i.loc = "STACK"

\* ir_alloc_stack: a fresh range of `size` bytes below everything reserved so far
ir_alloc_stack(top, size, align) ==
    LET raw == top - size IN raw - (raw % align)

\* ir_init_irs: decide where a symbol of type t lives; gives the new irstate
\* and the allocator's counters
ir_init_irs(i, t, top, r) ==
    IF i.loc # "NONE" THEN [irs |-> i, sp |-> top, nreg |-> r]
    ELSE IF ~i.hstack /\ types[t].ttype \in {"T_SCALAR", "T_POINTER"}
    THEN [irs |-> [i EXCEPT !.loc = "REG", !.reg = r, !.size = type_sizeof(t)],
          sp |-> top, nreg |-> r + 1]
    ELSE IF i.stack # 0
    THEN [irs |-> [i EXCEPT !.loc = "STACK", !.size = type_sizeof(t)],
          sp |-> top, nreg |-> r]
    ELSE LET s == ir_alloc_stack(top, type_sizeof(t), type_alignof(t))
         IN [irs |-> [i EXCEPT !.loc = "STACK", !.size = type_sizeof(t), !.stack = s],
             sp |-> s, nreg |-> r]

\* ir_emit_reg_to_sym: the register's value becomes the symbol's value
ir_emit_reg_to_sym(i, src) ==
    IF i.loc = "REG" THEN (IF i.reg = src THEN <<>> ELSE <<MOV(i.reg, src)>>)
    ELSE <<STX(i.size, i.stack, BPF_REG_BP, src)>>

\* ir_emit_bzero: zero the bytes [off, off + len) of the frame
RECURSIVE ir_emit_bzero(_, _)
ir_emit_bzero(off, len) ==
    IF len <= 0 THEN <<>>
    ELSE <<ST_IMM(1, off, 0, BPF_REG_BP)>> \o ir_emit_bzero(off + 1, len - 1)

\* ir_emit_memcpy: copy len bytes of the frame from src to dst through r0
RECURSIVE ir_emit_memcpy(_, _, _)
ir_emit_memcpy(dst, src, len) ==
    IF len <= 0 \/ dst = src THEN <<>>
    ELSE <<LDX(1, src, BPF_REG_0, BPF_REG_BP), STX(1, dst, BPF_REG_BP, BPF_REG_0)>>
            \o ir_emit_memcpy(dst + 1, src + 1, len - 1)

\* ir_emit_sym_to_reg: load a symbol's value into a register
ir_emit_sym_to_reg(dst, i) ==
    CASE i.loc = "IMM"   -> <<MOV_IMM(i.imm, dst)>>
      [] i.loc = "REG"   -> IF dst = i.reg THEN <<>> ELSE <<MOV(dst, i.reg)>>
      [] i.loc = "STACK" -> <<LDX(i.size, i.stack, dst, BPF_REG_BP)>>

\* ir_emit_sym_to_stack: store a symbol's value at a frame offset
ir_emit_sym_to_stack(off, i) ==
    CASE i.loc = "IMM"   -> <<ST_IMM(i.size, off, i.imm, BPF_REG_BP)>>
      [] i.loc = "REG"   -> <<STX(i.size, off, BPF_REG_BP, i.reg)>>
      [] i.loc = "STACK" -> ir_emit_memcpy(off, i.stack, i.size)

\* ir_emit_sym_to_sym: copy src's value into dst's storage
ir_emit_sym_to_sym(dst, src) ==
    CASE dst.loc = "REG"   -> ir_emit_sym_to_reg(dst.reg, src)
      [] dst.loc = "STACK" -> ir_emit_sym_to_stack(dst.stack, src)

\* ir_emit_read_to_sym: bounds-checked read of dst.size bytes from the address
\* in register src into dst's stack storage
ir_emit_read_to_sym(dst, src) ==
    ir_emit_ldbp(BPF_REG_1, dst.stack)
        \o <<MOV_IMM(dst.size, BPF_REG_2)>>
        \o (IF src # BPF_REG_3 THEN <<MOV(BPF_REG_3, src)>> ELSE <<>>)
        \o <<CALL("probe_read")>>

ir_emit_ldmap(dst, map) == <<LDMAP(dst, map)>>

-----------------------------------------------------------------------------
(* strcmp *)

\* `*blit` is a plain char converted to the 32-bit immediate: unless the build
\* makes plain char unsigned, a byte above 127 becomes a negative immediate
CharImm(byte) == IF ~scen.charUnsigned /\ byte >= 128 THEN byte - 256 ELSE byte

RECURSIVE strcmp_loop(_, _, _, _, _, _, _)
strcmp_loop(dst, a, b, blit, literal, len, done) ==
    IF len = 0 THEN <<>>
    ELSE LET ld  == <<LDX(1, a, dst, BPF_REG_BP)>>
             sub == IF literal
                    THEN <<ALU_IMM("SUB", CharImm(Head(blit)), dst)>>
                    ELSE <<LDX(1, b, BPF_REG_1, BPF_REG_BP), ALU("SUB", dst, BPF_REG_1)>>
             nxt == IF literal THEN Tail(blit) ELSE blit
         IN IF len = 1 THEN ld \o sub
            ELSE IF ~literal
            THEN ld \o sub \o <<JMP_IMM("JEQ", 0, done, BPF_REG_1)>>
                    \o <<JMP_IMM("JNE", 0, done, dst)>>
                    \o strcmp_loop(dst, a + 1, b + 1, nxt, literal, len - 1, done)
            ELSE IF Head(blit) = 0 THEN ld \o sub
            ELSE ld \o sub \o <<JMP_IMM("JNE", 0, done, dst)>>
                    \o strcmp_loop(dst, a + 1, b + 1, nxt, literal, len - 1, done)

strcmp_emit(dst, a, b, blit, literal, len, done) ==
    strcmp_loop(dst, a, b, blit, literal, len, done) \o <<LABEL(done)>>

\* the code strcmp_ir_post emits for node n with arguments a0, b0
strcmp_code(n, a0, b0) ==
    LET swap   == scen.node[a0].ntype = "N_STRING"
        a      == IF swap THEN b0 ELSE a0
        b      == IF swap THEN a0 ELSE b0
        invert == swap
        lit    == scen.node[b].ntype = "N_STRING"
        blit   == IF lit THEN scen.node[b].data ELSE <<>>
        ini    == ir_init_irs(irs[n], ty[n], sp, nreg)
        len    == Min(type_sizeof(ty[a]), type_sizeof(ty[b]))
        dst    == IF sym_in_reg(ini.irs) THEN ini.irs.reg ELSE BPF_REG_0
    IN [ok   |-> sym_on_stack(irs[a]) /\ (lit \/ sym_on_stack(irs[b])),
        ini  |-> ini,
        code |-> strcmp_emit(dst, irs[a].stack, irs[b].stack, blit, lit, len, nlabel)
                 \o (IF invert THEN <<ALU_IMM("NEG", 0, dst)>> ELSE <<>>)
                 \o ir_emit_reg_to_sym(ini.irs, dst)]

strcmp_ir_post ==
    /\ todo # <<>> /\ Head(todo) = <<"strcmp_ir_post", "n">>
    /\ LET c == strcmp_code("n", "a", "b")
       IN /\ c.ok
          /\ irs' = [irs EXCEPT !["n"] = c.ini.irs]
          /\ sp' = c.ini.sp
          /\ nreg' = c.ini.nreg
          /\ nlabel' = nlabel + 1
          /\ prog' = prog \o c.code
    /\ todo' = Tail(todo)
    /\ UNCHANGED <<scen, mvars, tvars, ret, ghost>>

-----------------------------------------------------------------------------
(* The machine the emitted code runs on *)

InFrame(addr, len) == FrameTop - FrameSize <= addr /\ addr + len <= FrameTop

MapKeySize == type_sizeof(types[ty["m"]].key)
MapValSize == type_sizeof(types[ty["m"]].of)

\* the byte at an address probe_read may read: memory, or a value of the map
InMapValue(addr) ==
    /\ addr >= MapBase
    /\ ((addr - MapBase) \div 8) \in DOMAIN kmap
    /\ (addr - MapBase) % 8 < MapValSize
Readable(addr) == addr \in DOMAIN mem \/ InMapValue(addr)
ByteAt(addr) ==
    IF addr \in DOMAIN mem THEN mem[addr]
    ELSE ByteOf(kmap[(addr - MapBase) \div 8], (addr - MapBase) % 8)

AluOp(aop, x, y) ==
    CASE aop = "ADD" -> x + y
      [] aop = "SUB" -> x - y
      [] aop = "NEG" -> 0 - x

FindLabel(p, lbl) == CHOOSE k \in 1 .. Len(p) : p[k].op = "LABEL" /\ p[k].off = lbl

\* a helper call leaves its result in r0 and nothing usable in r1..r5
Clobber(r, r0) ==
    [x \in DOMAIN r |-> IF x = BPF_REG_0 THEN r0
                        ELSE IF x \in BPF_REG_1 .. 5 THEN scen.garbage ELSE r[x]]

Fault == /\ pc' = -1
         /\ UNCHANGED <<regs, mem, kmap>>

ExecCall(fn) ==
    CASE fn = "probe_read" ->
           LET dst == regs[BPF_REG_1] len == regs[BPF_REG_2] src == regs[BPF_REG_3]
           IN IF ~InFrame(dst, len) THEN Fault
              ELSE IF \A k \in 0 .. (len - 1) : Readable(src + k)
              THEN /\ mem' = [x \in DOMAIN mem |->
                                 IF dst <= x /\ x < dst + len THEN ByteAt(src + (x - dst))
                                 ELSE mem[x]]
                   /\ regs' = Clobber(regs, 0)
                   /\ pc' = pc + 1
                   /\ UNCHANGED kmap
              ELSE /\ mem' = Fill(mem, dst, len, 0)
                   /\ regs' = Clobber(regs, -14)
                   /\ pc' = pc + 1
                   /\ UNCHANGED kmap
      [] fn = "map_lookup_elem" ->
           LET kp == regs[BPF_REG_2]
           IN IF ~InFrame(kp, MapKeySize) THEN Fault
              ELSE LET k == LoadLE(mem, kp, MapKeySize)
                   IN /\ regs' = Clobber(regs, IF k \in DOMAIN kmap THEN MapBase + 8 * k ELSE 0)
                      /\ pc' = pc + 1
                      /\ UNCHANGED <<mem, kmap>>
      [] fn = "map_update_elem" ->
           LET kp == regs[BPF_REG_2] vp == regs[BPF_REG_3]
           IN IF ~InFrame(kp, MapKeySize) \/ ~InFrame(vp, MapValSize) THEN Fault
              ELSE LET k == LoadLE(mem, kp, MapKeySize)
                       v == LoadLE(mem, vp, MapValSize)
                   IN /\ kmap' = [x \in DOMAIN kmap \cup {k} |-> IF x = k THEN v ELSE kmap[x]]
                      /\ regs' = Clobber(regs, 0)
                      /\ pc' = pc + 1
                      /\ UNCHANGED mem
      [] fn = "map_delete_elem" ->
           LET kp == regs[BPF_REG_2]
           IN IF ~InFrame(kp, MapKeySize) THEN Fault
              ELSE LET k == LoadLE(mem, kp, MapKeySize)
                   IN /\ kmap' = [x \in DOMAIN kmap \ {k} |-> kmap[x]]
                      /\ regs' = Clobber(regs, IF k \in DOMAIN kmap THEN 0 ELSE -2)
                      /\ pc' = pc + 1
                      /\ UNCHANGED mem

\* one instruction of the emitted program; the code of a statement runs once
\* the statement is compiled
ExecInsn ==
    /\ todo = <<>> /\ ret = "ok"
    /\ pc >= 1 /\ pc <= Len(prog)
    /\ LET i == prog[pc]
       IN CASE i.op = "LDX" ->
                 IF ~InFrame(regs[i.src] + i.off, i.w) THEN Fault
                 ELSE /\ regs' = [regs EXCEPT ![i.dst] = LoadLE(mem, regs[i.src] + i.off, i.w)]
                      /\ pc' = pc + 1
                      /\ UNCHANGED <<mem, kmap>>
            [] i.op = "STX" ->
                 IF ~InFrame(regs[i.dst] + i.off, i.w) THEN Fault
                 ELSE /\ mem' = StoreLE(mem, regs[i.dst] + i.off, i.w, regs[i.src])
                      /\ pc' = pc + 1
                      /\ UNCHANGED <<regs, kmap>>
            [] i.op = "ST" ->
                 IF ~InFrame(regs[i.dst] + i.off, i.w) THEN Fault
                 ELSE /\ mem' = StoreLE(mem, regs[i.dst] + i.off, i.w, i.imm)
                      /\ pc' = pc + 1
                      /\ UNCHANGED <<regs, kmap>>
            [] i.op = "MOV" ->
                 /\ regs' = [regs EXCEPT ![i.dst] = regs[i.src]]
                 /\ pc' = pc + 1
                 /\ UNCHANGED <<mem, kmap>>
            [] i.op = "MOVI" ->
                 /\ regs' = [regs EXCEPT ![i.dst] = i.imm]
                 /\ pc' = pc + 1
                 /\ UNCHANGED <<mem, kmap>>
            [] i.op = "LDMAP" ->
                 /\ regs' = [regs EXCEPT ![i.dst] = MapBase]
                 /\ pc' = pc + 1
                 /\ UNCHANGED <<mem, kmap>>
            [] i.op = "ALU" ->
                 /\ regs' = [regs EXCEPT ![i.dst] = AluOp(i.fn, regs[i.dst], regs[i.src])]
                 /\ pc' = pc + 1
                 /\ UNCHANGED <<mem, kmap>>
            [] i.op = "ALUI" ->
                 /\ regs' = [regs EXCEPT ![i.dst] = AluOp(i.fn, regs[i.dst], i.imm)]
                 /\ pc' = pc + 1
                 /\ UNCHANGED <<mem, kmap>>
            [] i.op = "JMPI" ->
                 LET taken == CASE i.fn = "JEQ" -> regs[i.dst] = i.imm
                                [] i.fn = "JNE" -> regs[i.dst] # i.imm
                                [] i.fn = "JA"  -> TRUE
                 IN /\ pc' = IF taken THEN FindLabel(prog, i.off) ELSE pc + 1
                    /\ UNCHANGED <<regs, mem, kmap>>
            [] i.op = "LABEL" ->
                 /\ pc' = pc + 1
                 /\ UNCHANGED <<regs, mem, kmap>>
            [] i.op = "CALL" -> ExecCall(i.fn)
    /\ UNCHANGED <<scen, todo, cgvars, tvars, ret, ghost>>

Halted == todo = <<>> /\ ret = "ok" /\ pc = Len(prog) + 1

RegsInit(g) == [r \in 0 .. 10 |-> IF r = BPF_REG_BP THEN FrameTop ELSE g]

Dirty == 85      \* what a byte nobody wrote yet reads as

MemInit == [x \in Addrs |-> Dirty]

-----------------------------------------------------------------------------
(* Runs of strcmp(a, b): the shapes are both operands on the stack ("ss"),  *)
(* the second a string literal ("sl") and the first a string literal ("ls") *)

StrNode(nt, data) == [ntype |-> nt, data |-> data]

RECURSIVE Poke(_, _, _)
Poke(m, addr, bytes) ==
    IF bytes = <<>> THEN m
    ELSE Poke([m EXCEPT ![addr] = Head(bytes)], addr + 1, Tail(bytes))

InitStrcmp ==
    \E cu \in BOOLEAN, L \in 1 .. MaxLen, shape \in {"sl", "ls", "ss"}, hs \in BOOLEAN :
    \E A \in [1 .. L -> ByteVals], B \in [1 .. L -> ByteVals] :
       LET alit == shape = "ls"
           blit == shape = "sl"
           aoff == 0 - L
           boff == 0 - 2 * L
           m0   == MemInit
           m1   == IF alit THEN m0 ELSE Poke(m0, FrameTop + aoff, A)
           m2   == IF blit THEN m1 ELSE Poke(m1, FrameTop + boff, B)
           str  == ArrayName("char", L)
       IN /\ scen = [kind |-> "strcmp", L |-> L, A |-> A, B |-> B, shape |-> shape,
                     charUnsigned |-> cu, garbage |-> Dirty,
                     node |-> [x \in {"a", "b"} |->
                                 IF (x = "a" /\ alit) \/ (x = "b" /\ blit)
                                 THEN StrNode("N_STRING", IF x = "a" THEN A ELSE B)
                                 ELSE StrNode("N_EXPR", <<>>)]]
          /\ todo = <<<<"strcmp_ir_post", "n">>>>
          /\ types = BaseTypes
          /\ ty = [x \in {"n", "a", "b"} |-> IF x = "n" THEN "int" ELSE str]
          /\ irs = [x \in {"n", "a", "b"} |->
                      CASE x = "n" -> [NoIrs EXCEPT !.hstack = hs]
                        [] x = "a" -> IF alit THEN NoIrs
                                      ELSE [NoIrs EXCEPT !.loc = "STACK", !.stack = aoff, !.size = L]
                        [] x = "b" -> IF blit THEN NoIrs
                                      ELSE [NoIrs EXCEPT !.loc = "STACK", !.stack = boff, !.size = L]]
          /\ sp = boff
          /\ nreg = FirstFreeReg
          /\ nlabel = 0
          /\ prog = <<>>
          /\ pc = 1
          /\ regs = RegsInit(Dirty)
          /\ mem = m2
          /\ kmap = <<>>
          /\ virt = {}
          /\ ast = <<>>
          /\ ret = "ok"
          /\ ghost = <<>>

NextStrcmp == strcmp_ir_post \/ ExecInsn

SpecStrcmp == InitStrcmp /\ [][NextStrcmp]_vars

\* the value strcmp left in its node, read as the int it is typed as
StrcmpResult ==
    IF irs["n"].loc = "REG" THEN regs[irs["n"].reg]
    ELSE SignedLE(mem, FrameTop + irs["n"].stack, 4)

Sign(x) == IF x < 0 THEN -1 ELSE IF x > 0 THEN 1 ELSE 0

FirstDiff(A, B) == CHOOSE i \in 1 .. Len(A) :
                      A[i] # B[i] /\ \A j \in 1 .. (i - 1) : A[j] = B[j]

\* C1: after the emitted comparison of two byte sequences of equal length has
\* run, the result is 0 iff they are byte-identical, and otherwise its sign is
\* the sign of A[i] - B[i] at the first differing index, for every operand shape
C1_StrcmpByteOrder ==
    (scen.kind = "strcmp" /\ Halted) =>
        /\ (StrcmpResult = 0) <=> (scen.A = scen.B)
        /\ scen.A # scen.B =>
             LET i == FirstDiff(scen.A, scen.B)
             IN Sign(StrcmpResult) = Sign(scen.A[i] - scen.B[i])

-----------------------------------------------------------------------------
(* Statements: `lval = rv`, `delete lval` and a read of `m[key]`.  The nodes *)
(* of the statement being compiled are "asg" (=), "del" (delete), "sub" (the *)
(* left-hand side or operand; when it is a subscript, of "m" by "key") and   *)
(* "rv".  The target of a statement says what "sub" is: a subscript of a     *)
(* map, of an array or of a pointer, an identifier or a dereference.         *)

MaxStmts == 3        \* statements of one probe
MaxKey   == 2        \* keys are 1 .. MaxKey
MaxVal   == 2        \* values assigned are 1 .. MaxVal

StmtNodes == {"asg", "del", "sub", "m", "key", "rv"}

\* node_is(n->up, "="): the operator above the subscript node
UpOfSub == scen.stmt.op

\* node_is(lval, "[]"): whether the target is a subscript expression
TargetIsSubscript == scen.stmt.tgt \in {"map", "array", "pointer"}

\* what assign_static_validate returns for a left-hand side
assign_static_validate_ret(lvalIsSubscript) ==
    IF lvalIsSubscript THEN "ok" ELSE "EINVAL"

\* what delete_static_validate returns for an operand
delete_static_validate_ret(argIsSubscript) ==
    IF argIsSubscript THEN "ok" ELSE "EINVAL"

\* an error of a hook ends the compilation of the statement
assign_static_validate ==
    /\ todo # <<>> /\ Head(todo) = <<"assign_static_validate", "asg">>
    /\ ret' = assign_static_validate_ret(TargetIsSubscript)
    /\ todo' = IF ret' = "ok" THEN Tail(todo) ELSE <<>>
    /\ UNCHANGED <<scen, cgvars, mvars, tvars, ghost>>

delete_static_validate ==
    /\ todo # <<>> /\ Head(todo) = <<"delete_static_validate", "del">>
    /\ ret' = delete_static_validate_ret(TargetIsSubscript)
    /\ todo' = IF ret' = "ok" THEN Tail(todo) ELSE <<>>
    /\ UNCHANGED <<scen, cgvars, mvars, tvars, ghost>>

\* code generation of a leaf (a number, an identifier, a key tuple), which is
\* not in this file: a number that fits becomes an immediate, anything else is
\* placed by the allocator and its value stored there
leaf_code(n, isnum, val) ==
    IF isnum
    THEN [ini  |-> [irs |-> [irs[n] EXCEPT !.loc = "IMM", !.imm = val,
                                           !.size = type_sizeof(ty[n])],
                    sp |-> sp, nreg |-> nreg],
          code |-> <<>>]
    ELSE LET ini == ir_init_irs(irs[n], ty[n], sp, nreg)
         IN [ini  |-> ini,
             code |-> IF ini.irs.loc = "REG" THEN <<MOV_IMM(val, ini.irs.reg)>>
                      ELSE <<ST_IMM(ini.irs.size, ini.irs.stack, val, BPF_REG_BP)>>]

leaf_ir_post ==
    /\ todo # <<>> /\ Head(todo)[1] = "leaf_ir_post"
    /\ LET n == Head(todo)[2]
           c == IF n = "key" THEN leaf_code(n, FALSE, scen.stmt.K)
                ELSE leaf_code(n, scen.stmt.rvNum, scen.stmt.V)
       IN /\ irs' = [irs EXCEPT ![n] = c.ini.irs]
          /\ sp' = c.ini.sp
          /\ nreg' = c.ini.nreg
          /\ prog' = prog \o c.code
    /\ todo' = Tail(todo)
    /\ UNCHANGED <<scen, nlabel, mvars, tvars, ret, ghost>>

\* the load of a subscript's value: the lookup and its two outcomes
subscript_load(n, map, keystack, lmiss, lhit) ==
    ir_emit_ldmap(BPF_REG_1, map)
        \o ir_emit_ldbp(BPF_REG_2, keystack)
        \o <<CALL("map_lookup_elem")>>
        \o <<JMP_IMM("JEQ", 0, lmiss, BPF_REG_0)>>
        \o ir_emit_read_to_sym(n, BPF_REG_0)
        \o <<JMP_IMM("JA", 0, lhit, 0)>>
        \o <<LABEL(lmiss)>>
        \o ir_emit_bzero(n.stack, n.size)
        \o <<LABEL(lhit)>>

\* whether subscript_ir_post_map returns before the load
subscript_skips_load(n) == UpOfSub = "="

subscript_ir_post_map(n, map, key) ==
    LET stack == irs[key].stack
        ini   == ir_init_irs([irs[n] EXCEPT !.hstack = TRUE], ty[n], sp, nreg)
    IN /\ irs' = [irs EXCEPT ![n] = ini.irs]
       /\ sp' = ini.sp
       /\ nreg' = ini.nreg
       /\ IF subscript_skips_load(n)
          THEN UNCHANGED <<prog, nlabel>>
          ELSE /\ prog' = prog \o subscript_load(ini.irs, map, stack, nlabel, nlabel + 1)
               /\ nlabel' = nlabel + 2

\* subscript_ir_post: only the map case generates code; the array and the
\* pointer case and every other type end in assert(0)
subscript_ir_post ==
    /\ todo # <<>> /\ Head(todo) = <<"subscript_ir_post", "sub">>
    /\ IF types[type_base(ty["m"])].ttype = "T_MAP"
       THEN /\ subscript_ir_post_map("sub", "m", "key")
            /\ todo' = Tail(todo)
            /\ UNCHANGED ret
       ELSE /\ todo' = <<>>
            /\ ret' = "assert"
            /\ UNCHANGED cgvars
    /\ UNCHANGED <<scen, mvars, tvars, ghost>>

map_ir_update(n, map, key) ==
    ir_emit_ldmap(BPF_REG_1, map)
        \o ir_emit_ldbp(BPF_REG_2, irs[key].stack)
        \o ir_emit_ldbp(BPF_REG_3, irs[n].stack)
        \o <<MOV_IMM(0, BPF_REG_4)>>
        \o <<CALL("map_update_elem")>>

assign_ir_pre ==
    /\ todo # <<>> /\ Head(todo) = <<"assign_ir_pre", "asg">>
    /\ LET ini == ir_init_irs([irs["asg"] EXCEPT !.hstack = TRUE], ty["sub"], sp, nreg)
           st  == ini.irs.stack
       IN /\ irs' = [irs EXCEPT
                       !["asg"] = ini.irs,
                       !["sub"] = [@ EXCEPT !.hlval = TRUE, !.hstack = TRUE, !.stack = st],
                       !["rv"]  = [@ EXCEPT !.hstack = TRUE, !.stack = st],
                       !["key"] = IF TargetIsSubscript
                                  THEN [@ EXCEPT !.hstack = TRUE] ELSE @]
          /\ sp' = ini.sp
          /\ nreg' = ini.nreg
    /\ todo' = Tail(todo)
    /\ UNCHANGED <<scen, nlabel, prog, mvars, tvars, ret, ghost>>

assign_ir_post ==
    /\ todo # <<>> /\ Head(todo) = <<"assign_ir_post", "asg">>
    /\ prog' = prog \o ir_emit_sym_to_sym(irs["sub"], irs["rv"])
                    \o (IF TargetIsSubscript THEN map_ir_update("sub", "m", "key")
                        ELSE <<>>)
    /\ todo' = Tail(todo)
    /\ UNCHANGED <<scen, irs, sp, nreg, nlabel, mvars, tvars, ret, ghost>>

delete_ir_pre ==
    /\ todo # <<>> /\ Head(todo) = <<"delete_ir_pre", "del">>
    /\ irs' = [irs EXCEPT !["sub"] = [@ EXCEPT !.hlval = TRUE, !.hstack = TRUE]]
    /\ todo' = Tail(todo)
    /\ UNCHANGED <<scen, sp, nreg, nlabel, prog, mvars, tvars, ret, ghost>>

delete_ir_post ==
    /\ todo # <<>> /\ Head(todo) = <<"delete_ir_post", "del">>
    /\ prog' = prog \o ir_emit_ldmap(BPF_REG_1, "m")
                    \o ir_emit_ldbp(BPF_REG_2, irs["key"].stack)
                    \o <<CALL("map_delete_elem")>>
    /\ todo' = Tail(todo)
    /\ UNCHANGED <<scen, irs, sp, nreg, nlabel, mvars, tvars, ret, ghost>>

\* the hooks of a statement in the order of the walk: ir_pre of a node, then
\* its arguments from left to right, then its ir_post
Walk(op) ==
    CASE op = "=" ->
           <<<<"assign_static_validate", "asg">>,
             <<"assign_ir_pre", "asg">>, <<"leaf_ir_post", "key">>,
             <<"subscript_ir_post", "sub">>, <<"leaf_ir_post", "rv">>,
             <<"assign_ir_post", "asg">>>>
      [] op = "delete" ->
           <<<<"delete_static_validate", "del">>,
             <<"delete_ir_pre", "del">>, <<"leaf_ir_post", "key">>,
             <<"subscript_ir_post", "sub">>, <<"delete_ir_post", "del">>>>
      [] op = "read" ->
           <<<<"leaf_ir_post", "key">>, <<"subscript_ir_post", "sub">>>>

Targets == {"map", "array", "pointer", "ident", "deref"}

\* the statements on the map m, and those with another target
MapStmts == [op : {"="}, tgt : {"map"}, K : 1 .. MaxKey, V : 1 .. MaxVal, rvNum : BOOLEAN]
              \cup [op : {"delete", "read"}, tgt : {"map"}, K : 1 .. MaxKey, V : {0},
                    rvNum : {FALSE}]
OtherStmts == [op : {"="}, tgt : Targets \ {"map"}, K : 1 .. MaxKey, V : 1 .. MaxVal,
               rvNum : BOOLEAN]
                \cup [op : {"delete"}, tgt : Targets \ {"map"}, K : 1 .. MaxKey, V : {0},
                      rvNum : {FALSE}]

\* what the statements run so far make of the map, and what a read must give
GhostAfter(g, st) ==
    LET mdl == g.model
    IN CASE st.op = "=" ->
              [g EXCEPT !.model = [k \in DOMAIN mdl \cup {st.K} |->
                                      IF k = st.K THEN st.V ELSE mdl[k]],
                        !.start = Len(prog)]
         [] st.op = "delete" ->
              [g EXCEPT !.model = [k \in DOMAIN mdl \ {st.K} |-> mdl[k]],
                        !.start = Len(prog)]
         [] st.op = "read" ->
              [g EXCEPT !.expect = IF st.K \in DOMAIN mdl THEN mdl[st.K] ELSE 0,
                        !.start = Len(prog)]

MapTypes(keyType) ==
    BaseTypes @@ [t \in {"map"} |-> TDesc("T_MAP", 8, 8, "int", keyType, <<>>)]
              @@ [t \in {"int[2]"} |-> TDesc("T_ARRAY", 8, 4, "int", NoType, <<>>)]

\* the types inference leaves on the nodes of a statement
StmtTy(keyType, tgt) ==
    [x \in StmtNodes |->
        CASE x = "m" -> (CASE tgt = "array" -> "int[2]" [] tgt = "pointer" -> "int*"
                           [] OTHER -> "map")
          [] x = "key" -> keyType
          [] x \in {"asg", "del"} -> "void" [] OTHER -> "int"]

InitStmt(kt, st) ==
       /\ scen = [kind |-> "map", keyType |-> kt, stmt |-> st, nstmt |-> 1,
                  garbage |-> Dirty, charUnsigned |-> FALSE]
       /\ todo = Walk(st.op)
       /\ types = MapTypes(kt)
       /\ ty = StmtTy(kt, st.tgt)
       /\ irs = [x \in StmtNodes |-> NoIrs]
       /\ sp = 0
       /\ nreg = FirstFreeReg
       /\ nlabel = 0
       /\ prog = <<>>
       /\ pc = 1
       /\ regs = RegsInit(Dirty)
       /\ mem = MemInit
       /\ kmap = <<>>
       /\ virt = {}
       /\ ast = <<>>
       /\ ret = "ok"
       /\ ghost = GhostAfter([model |-> <<>>, expect |-> 0, start |-> 0], st)

InitMap == \E kt \in {"int", "K"}, st \in MapStmts : InitStmt(kt, st)

InitAny == \E kt \in {"int", "K"}, st \in MapStmts \cup OtherStmts : InitStmt(kt, st)

\* the next statement of the probe: new nodes with fresh symbols, compiled
\* into the same program and frame
NextStmt ==
    /\ scen.kind = "map"
    /\ Halted
    /\ scen.nstmt < MaxStmts
    /\ \E st \in MapStmts :
          /\ scen' = [scen EXCEPT !.stmt = st, !.nstmt = @ + 1]
          /\ todo' = Walk(st.op)
          /\ ghost' = GhostAfter(ghost, st)
    /\ irs' = [x \in StmtNodes |-> NoIrs]
    /\ UNCHANGED <<sp, nreg, nlabel, prog, mvars, tvars, ret>>

\* one statement with any target, from validation to the run of its code
NextOne == assign_static_validate \/ delete_static_validate
              \/ assign_ir_pre \/ assign_ir_post \/ delete_ir_pre \/ delete_ir_post
              \/ subscript_ir_post \/ leaf_ir_post \/ ExecInsn

SpecStmt == InitAny /\ [][NextOne]_vars

\* a probe of up to MaxStmts statements on the map m
NextMap == NextOne \/ NextStmt

SpecMap == InitMap /\ [][NextMap]_vars

\* the code emitted for the statement being compiled or run
StmtCode == SubSeq(prog, ghost.start + 1, Len(prog))

Calls(code, fn) == {k \in 1 .. Len(code) : code[k].op = "CALL" /\ code[k].fn = fn}

ReadDone == scen.kind = "map" /\ scen.stmt.op = "read" /\ todo = <<>>
               /\ (Halted \/ pc = -1)

\* C2: every read of K yields the value of the most recent assignment to K not
\* followed by a delete of K, and zero when there is none; no read ends in an
\* error state
C2_ReadYieldsLastWrite ==
    ReadDone =>
        /\ pc # -1
        /\ LoadLE(mem, FrameTop + irs["sub"].stack, irs["sub"].size) = ghost.expect

\* C10: the code generated for `delete m[k]`, the code of its subscript operand
\* included, holds exactly one helper call, the map-delete call, and no lookup
C10_DeleteOneCall ==
    (scen.kind = "map" /\ scen.stmt.op = "delete" /\ todo = <<>>) =>
        /\ Cardinality({k \in 1 .. Len(StmtCode) : StmtCode[k].op = "CALL"}) = 1
        /\ Cardinality(Calls(StmtCode, "map_delete_elem")) = 1
        /\ Calls(StmtCode, "map_lookup_elem") = {}

-----------------------------------------------------------------------------
(* A struct literal [a1, ..., aN]: node "n" with the arguments Arg(1..N).    *)

MaxArgs == 3         \* arguments of a struct literal

Arg(i) == "a" \o ToString(i)
ArgVal(i) == 16 * i + 1          \* the value of argument i, distinct and not 0

\* padding left as the stack holds it: nothing is emitted for a gap
struct_gap_none(stack, end, next) == <<>>

\* the gap after a field that ends at `end` when the next one starts at `next`
struct_gap(stack, end, next) ==
    LET pad == next - end
    IN IF pad # 0 THEN ir_emit_bzero(stack + end, pad) ELSE <<>>

\* the loop of struct_ir_pre from field i on: the storage it hands to the
\* arguments that have none yet and the zeroing it emits between fields
RECURSIVE struct_pre_loop(_, _, _, _, _)
struct_pre_loop(t, stack, i, nargs, acc) ==
    IF i > Len(types[t].fields) THEN acc
    ELSE LET f      == types[t].fields[i]
             offset == type_offsetof(t, f.name)
             size   == type_sizeof(f.type)
             a      == Arg(i)
             placed == IF acc.irs[a].loc = "NONE"
                       THEN [acc.irs EXCEPT ![a] = [@ EXCEPT !.hstack = TRUE,
                                                             !.stack = stack + offset]]
                       ELSE acc.irs
             gap    == IF i < nargs
                       THEN struct_gap(stack, offset + size,
                                       type_offsetof(t, types[t].fields[i + 1].name))
                       ELSE <<>>
         IN struct_pre_loop(t, stack, i + 1, nargs,
                            [irs |-> placed, code |-> acc.code \o gap,
                             offset |-> offset, size |-> size])

struct_ir_pre ==
    /\ todo # <<>> /\ Head(todo) = <<"struct_ir_pre", "n">>
    /\ LET t     == type_base(ty["n"])
           ini   == ir_init_irs([irs["n"] EXCEPT !.hstack = TRUE], ty["n"], sp, nreg)
           stack == ini.irs.stack
           loop  == struct_pre_loop(t, stack, 1, scen.nargs,
                                    [irs |-> [irs EXCEPT !["n"] = ini.irs], code |-> <<>>,
                                     offset |-> 0, size |-> 0])
       IN /\ irs' = loop.irs
          /\ sp' = ini.sp
          /\ nreg' = ini.nreg
          /\ prog' = prog \o loop.code
                          \o struct_gap(stack, loop.offset + loop.size, type_sizeof(t))
    /\ todo' = Tail(todo)
    /\ UNCHANGED <<scen, nlabel, mvars, tvars, ret, ghost>>

RECURSIVE struct_post_loop(_, _, _)
struct_post_loop(t, stack, i) ==
    IF i > Len(types[t].fields) THEN <<>>
    ELSE ir_emit_sym_to_stack(stack + type_offsetof(t, types[t].fields[i].name), irs[Arg(i)])
            \o struct_post_loop(t, stack, i + 1)

struct_ir_post ==
    /\ todo # <<>> /\ Head(todo) = <<"struct_ir_post", "n">>
    /\ prog' = prog \o struct_post_loop(type_base(ty["n"]), irs["n"].stack, 1)
    /\ todo' = Tail(todo)
    /\ UNCHANGED <<scen, irs, sp, nreg, nlabel, mvars, tvars, ret, ghost>>

\* code generation of argument i, which is not in this file (see leaf_code)
arg_ir_post ==
    /\ todo # <<>> /\ Head(todo)[1] = "arg_ir_post"
    /\ LET i == Head(todo)[2]
           c == leaf_code(Arg(i), scen.argKind[i] = "num", ArgVal(i))
       IN /\ irs' = [irs EXCEPT ![Arg(i)] = c.ini.irs]
          /\ sp' = c.ini.sp
          /\ nreg' = c.ini.nreg
          /\ prog' = prog \o c.code
    /\ todo' = Tail(todo)
    /\ UNCHANGED <<scen, nlabel, mvars, tvars, ret, ghost>>

ArgTypes == {"char", "int", "long"}
ArgKinds == {"num", "expr", "reg"}   \* "reg": already in a register before the literal

InitStruct ==
    \E N \in 0 .. MaxArgs :
    \E at \in [1 .. N -> ArgTypes], ak \in [1 .. N -> ArgKinds] :
       LET fields == [i \in 1 .. N |-> Field("f" \o ToString(i - 1), at[i])]
           nodes  == {"n"} \cup {Arg(i) : i \in 1 .. N}
           isreg(x) == \E i \in 1 .. N : x = Arg(i) /\ ak[i] = "reg"
           idx(x) == CHOOSE i \in 1 .. N : x = Arg(i)
       IN /\ scen = [kind |-> "struct", nargs |-> N, argType |-> at, argKind |-> ak,
                     garbage |-> Dirty, charUnsigned |-> FALSE]
          /\ todo = <<<<"struct_ir_pre", "n">>>>
                       \o [i \in 1 .. N |-> <<"arg_ir_post", i>>]
                       \o <<<<"struct_ir_post", "n">>>>
          /\ types = BaseTypes @@ [t \in {":anon"} |-> StructDescIn(BaseTypes, fields)]
          /\ ty = [x \in nodes |-> IF x = "n" THEN ":anon" ELSE at[idx(x)]]
          /\ irs = [x \in nodes |->
                      IF isreg(x)
                      THEN [NoIrs EXCEPT !.loc = "REG", !.reg = FirstFreeReg + idx(x) - 1,
                                         !.size = BaseTypes[at[idx(x)]].size]
                      ELSE NoIrs]
          /\ sp = 0
          /\ nreg = FirstFreeReg + N
          /\ nlabel = 0
          /\ prog = <<>>
          /\ pc = 1
          /\ regs = [r \in 0 .. 10 |->
                       IF r = BPF_REG_BP THEN FrameTop
                       ELSE IF r - FirstFreeReg + 1 \in 1 .. N THEN ArgVal(r - FirstFreeReg + 1)
                       ELSE Dirty]
          /\ mem = MemInit
          /\ kmap = <<>>
          /\ virt = {}
          /\ ast = <<>>
          /\ ret = "ok"
          /\ ghost = <<>>

NextStruct == struct_ir_pre \/ arg_ir_post \/ struct_ir_post \/ ExecInsn

SpecStruct == InitStruct /\ [][NextStruct]_vars

StructFields == types[ty["n"]].fields
StructBase   == FrameTop + irs["n"].stack
InField(b)   == \E i \in 1 .. Len(StructFields) :
                   LET o == type_offsetof(ty["n"], StructFields[i].name)
                   IN o <= b /\ b < o + type_sizeof(StructFields[i].type)

StructDone == scen.kind = "struct" /\ Halted

\* C8: once the pre-order and post-order code of a struct literal has run, every
\* byte of its region outside all field ranges (the gaps between fields and the
\* tail up to sizeof) is zero and every field range holds its argument's value;
\* a one-byte argument followed by a four-byte one gives a struct of size 8 with
\* bytes 1 to 3 zero and the second value at offset 4
C8_StructPaddingZero ==
    StructDone =>
        /\ \A b \in 0 .. (type_sizeof(ty["n"]) - 1) :
              ~InField(b) => mem[StructBase + b] = 0
        /\ \A i \in 1 .. Len(StructFields) :
              LoadLE(mem, StructBase + type_offsetof(ty["n"], StructFields[i].name),
                     type_sizeof(StructFields[i].type)) = ArgVal(i)
        /\ (scen.nargs = 2 /\ scen.argType = <<"char", "int">>) =>
              /\ type_sizeof(ty["n"]) = 8
              /\ \A b \in 1 .. 3 : mem[StructBase + b] = 0
              /\ LoadLE(mem, StructBase + 4, 4) = ArgVal(2)

\* a literal with a gap and a tail to fill has been built
C8_Witness ==
    /\ StructDone
    /\ scen.nargs = 3
    /\ scen.argType = <<"char", "long", "char">>
    /\ mem[StructBase + 1] = 0
    /\ mem[StructBase + 17] = 0

-----------------------------------------------------------------------------
(* Member access `sou.member`: node "n" (.) over "sou", which is either the  *)
(* dereference `*ptr` (node "sou" is u* with the argument "ptr") or a struct *)
(* that already has storage.                                                *)

SouIsDeref == scen.sou = "u*"

struct_dot_ir_pre ==
    /\ todo # <<>> /\ Head(todo) = <<"struct_dot_ir_pre", "n">>
    /\ IF SouIsDeref
       THEN irs' = [irs EXCEPT !["sou"] = [@ EXCEPT !.hdot = TRUE],
                               !["n"]   = [@ EXCEPT !.hstack = TRUE]]
       ELSE UNCHANGED irs
    /\ todo' = Tail(todo)
    /\ UNCHANGED <<scen, sp, nreg, nlabel, prog, mvars, tvars, ret, ghost>>

deref_ir_post ==
    /\ todo # <<>> /\ Head(todo) = <<"deref_ir_post", "sou">>
    /\ IF irs["sou"].hdot
       THEN UNCHANGED cgvars
       ELSE LET ini == ir_init_irs(irs["sou"], ty["sou"], sp, nreg)
            IN /\ irs' = [irs EXCEPT !["sou"] = ini.irs]
               /\ sp' = ini.sp
               /\ nreg' = ini.nreg
               /\ prog' = IF ini.irs.hlval THEN prog
                          ELSE prog \o ir_emit_sym_to_reg(BPF_REG_0, irs["ptr"])
                                    \o ir_emit_read_to_sym(ini.irs, BPF_REG_0)
               /\ UNCHANGED nlabel
    /\ todo' = Tail(todo)
    /\ UNCHANGED <<scen, mvars, tvars, ret, ghost>>

\* the tail of struct_dot_ir_post from the label probe_read on
dot_probe_read(dst) ==
    <<MOV_IMM(dst.size, BPF_REG_2)>>
        \o ir_emit_ldbp(BPF_REG_1, dst.stack)
        \o <<CALL("probe_read")>>

\* the code struct_dot_ir_post emits, dst being n's storage once initialised
struct_dot_code(dst, sou, ptr, member) ==
    LET offset == type_offsetof(type_base(ty[sou]), member)
    IN IF irs[sou].loc = "NONE"
       THEN ir_emit_sym_to_reg(BPF_REG_3, irs[ptr])
               \o <<ALU_IMM("ADD", offset, BPF_REG_3)>>
               \o dot_probe_read(dst)
       ELSE IF dst.loc = "REG"
       THEN <<LDX(dst.size, offset + irs[sou].stack, dst.reg, BPF_REG_BP)>>
       ELSE <<ALU_IMM("ADD", offset + irs[sou].stack, BPF_REG_3)>>
               \o dot_probe_read(dst)

struct_dot_ir_post ==
    /\ todo # <<>> /\ Head(todo) = <<"struct_dot_ir_post", "n">>
    /\ LET ini == ir_init_irs(irs["n"], ty["n"], sp, nreg)
       IN /\ irs' = [irs EXCEPT !["n"] = ini.irs]
          /\ sp' = ini.sp
          /\ nreg' = ini.nreg
          /\ prog' = prog \o struct_dot_code(ini.irs, "sou", "ptr", scen.member)
    /\ todo' = Tail(todo)
    /\ UNCHANGED <<scen, nlabel, mvars, tvars, ret, ghost>>

\* code generation of the operand below, which is not in this file: the
\* pointer is computed into its storage; a struct value is put on the stack
operand_ir_post ==
    /\ todo # <<>> /\ Head(todo)[1] = "operand_ir_post"
    /\ LET x == Head(todo)[2]
       IN IF x = "ptr"
          THEN LET c == leaf_code("ptr", FALSE, ExtBase)
               IN /\ irs' = [irs EXCEPT !["ptr"] = c.ini.irs]
                  /\ sp' = c.ini.sp
                  /\ nreg' = c.ini.nreg
                  /\ prog' = prog \o c.code
          ELSE LET ini == ir_init_irs(irs[x], ty[x], sp, nreg)
               IN /\ irs' = [irs EXCEPT ![x] = ini.irs]
                  /\ sp' = ini.sp
                  /\ nreg' = ini.nreg
                  /\ prog' = prog \o ir_emit_sym_to_reg(BPF_REG_3, irs["ptr"])
                                  \o ir_emit_read_to_sym(ini.irs, BPF_REG_3)
    /\ todo' = Tail(todo)
    /\ UNCHANGED <<scen, nlabel, mvars, tvars, ret, ghost>>

\* the struct the pointer refers to: byte k of it is ExtByte(k)
ExtByte(k) == 32 + k

MaxGarbage == 2      \* values an unwritten register may hold: Dirty + 0 .. MaxGarbage

InitDot ==
    \E sk \in {"u*", "stored"}, mb \in {"f0", "f1", "f2"}, hs \in BOOLEAN,
       g \in 0 .. MaxGarbage, pk \in {"reg", "stack"} :
       /\ scen = [kind |-> "dot", sou |-> sk, member |-> mb,
                  garbage |-> IF g = 0 THEN FrameTop ELSE Dirty + g,
                  charUnsigned |-> FALSE]
       /\ todo = IF sk = "u*"
                 THEN <<<<"struct_dot_ir_pre", "n">>, <<"operand_ir_post", "ptr">>,
                        <<"deref_ir_post", "sou">>, <<"struct_dot_ir_post", "n">>>>
                 ELSE <<<<"struct_dot_ir_pre", "n">>, <<"operand_ir_post", "ptr">>,
                        <<"operand_ir_post", "sou">>, <<"struct_dot_ir_post", "n">>>>
       /\ types = BaseTypes
       /\ ty = [x \in {"n", "sou", "ptr"} |->
                  CASE x = "sou" -> "S" [] x = "ptr" -> "S*"
                    [] x = "n" -> BaseTypes["S"].fields[FieldIndex(BaseTypes["S"].fields, mb)].type]
       /\ irs = [x \in {"n", "sou", "ptr"} |->
                   CASE x = "n" -> [NoIrs EXCEPT !.hstack = hs]
                     [] x = "ptr" -> [NoIrs EXCEPT !.hstack = (pk = "stack")]
                     [] OTHER -> NoIrs]
       /\ sp = 0
       /\ nreg = FirstFreeReg
       /\ nlabel = 0
       /\ prog = <<>>
       /\ pc = 1
       /\ regs = RegsInit(IF g = 0 THEN FrameTop ELSE Dirty + g)
       /\ mem = [x \in Addrs |->
                   IF ExtBase <= x /\ x < ExtBase + BaseTypes["S"].size
                   THEN ExtByte(x - ExtBase) ELSE Dirty]
       /\ kmap = <<>>
       /\ virt = {}
       /\ ast = <<>>
       /\ ret = "ok"
       /\ ghost = <<>>

NextDot == struct_dot_ir_pre \/ operand_ir_post \/ deref_ir_post
              \/ struct_dot_ir_post \/ ExecInsn

SpecDot == InitDot /\ [][NextDot]_vars

DotOffset == type_offsetof("S", scen.member)
DotSize   == type_sizeof(ty["n"])

\* the bytes of the member inside the struct the pointer refers to
RECURSIVE MemberValue(_, _)
MemberValue(k, w) == IF w = 0 THEN 0 ELSE ExtByte(k) + 256 * MemberValue(k + 1, w - 1)

DotResult ==
    IF irs["n"].loc = "REG" THEN regs[irs["n"].reg]
    ELSE LoadLE(mem, FrameTop + irs["n"].stack, DotSize)

DotReads == Calls(prog, "probe_read")

\* C9: the code of `.` delivers into the node's storage exactly the sizeof(m)
\* bytes at offsetof(m) within the value of s: for an unloaded dereference by one
\* bounds-checked read from (value of p) + offsetof(m) and no read of the whole
\* aggregate, for an s with storage from frame base + stack_base(s) + offsetof(m),
\* whether the destination is a register or on the stack
C9_DotDeliversMember ==
    (scen.kind = "dot" /\ (Halted \/ pc = -1)) =>
        /\ pc # -1
        /\ DotResult = MemberValue(DotOffset, DotSize)
        /\ SouIsDeref => Cardinality(DotReads) = 1

Validated == todo # Walk(scen.stmt.op)

\* a code generation hook of the statement has been invoked
CodegenReached ==
    \/ scen.stmt.op = "=" /\ irs["asg"].loc # "NONE"
    \/ scen.stmt.op = "delete" /\ irs["sub"].hlval

IsStmt == scen.kind = "map" /\ scen.stmt.op \in {"=", "delete"}

\* C3: static validation of `=` and of `delete` returns an error for every
\* target that is not a subscript of a map (a subscript of an array or of a
\* pointer, an identifier, a dereference), so no such statement reaches code
\* generation
C3_OnlyMapSubscripts ==
    (IsStmt /\ scen.stmt.tgt # "map") =>
        /\ Validated => ret = "EINVAL"
        /\ ~CodegenReached

-----------------------------------------------------------------------------
(* Type inference.  ast maps each node of an expression graph to its         *)
(* operator, its arguments (names of nodes), its node type and its literal   *)
(* value; ty holds sym->type of each node.  The engine invokes the           *)
(* type_infer hooks of the nodes, in any order and any number of times, and  *)
(* stops at the first hook that does not return 0.                           *)

Node(op, args, ntype, num, data) ==
    [op |-> op, args |-> args, ntype |-> ntype, num |-> num, data |-> data]

Nodes(op) == {n \in DOMAIN ast : ast[n].op = op}

MAX_BPF_STACK == 512
PtrSize == 8                      \* sizeof(void *)
string_size == MaxLen + 1         \* ply_config.string_size

type_is_string(t) == types[t].ttype = "T_ARRAY" /\ types[t].of = "char"

type_compatible(a, b) ==
    /\ types[a].ttype = types[b].ttype
    /\ \/ types[a].ttype \in {"T_SCALAR", "T_POINTER", "T_VOID"}
       \/ a = b

\* type_array_of: the array type of the registry, created when it is new
type_array_of(elem, len) ==
    LET name == ArrayName(elem, len)
    IN [name  |-> name,
        types |-> IF name \in DOMAIN types THEN types
                  ELSE types @@ [t \in {name} |->
                          TDesc("T_ARRAY", len * SizeIn(types, elem),
                                AlignIn(types, elem), elem, NoType, <<>>)]]

MapName(ktype, vtype) == "map{" \o ktype \o "}" \o vtype

\* type_map_of: the map type of the registry, created when it is new
type_map_of(ktype, vtype) ==
    LET name == MapName(ktype, vtype)
    IN [name  |-> name,
        types |-> IF name \in DOMAIN types THEN types
                  ELSE types @@ [t \in {name} |->
                          TDesc("T_MAP", 8, 8, vtype, ktype, <<>>)]]

\* what a hook leaves behind: its return value and the state it wrote
Done   == [ret |-> "ok", ty |-> ty, types |-> types, virt |-> virt]
Err    == [Done EXCEPT !.ret = "EINVAL"]
SetType(n, t) == [Done EXCEPT !.ty = [ty EXCEPT ![n] = t]]

strcmp_type_infer(n) ==
    LET s      == ast[n].args
        marked == {s[i] : i \in {j \in 1 .. 2 : ast[s[j]].ntype = "N_STRING"}}
    IN IF ty[n] # NoType THEN Done
       ELSE IF ~(ty[s[1]] # NoType /\ ty[s[2]] # NoType) THEN Done
       ELSE \* an operand that is no string only gets a warning (_nw)
            [SetType(n, "int") EXCEPT !.virt = virt \cup marked]

mem_type_infer(n) ==
    LET arg    == ast[n].args[1]
        hasLen == Len(ast[n].args) = 2
        len    == ast[n].args[2]
    IN IF ty[n] # NoType THEN Done
       ELSE IF ~(ty[arg] # NoType /\ (~hasLen \/ ty[len] # NoType)) THEN Done
       ELSE IF type_sizeof(ty[arg]) > PtrSize THEN Err
       ELSE IF hasLen /\ ast[len].ntype # "N_NUM" THEN Err
       ELSE IF hasLen /\ ast[len].num > MAX_BPF_STACK THEN Err
       ELSE LET sz == IF hasLen THEN ast[len].num ELSE string_size
                a  == type_array_of("char", sz)
            IN [SetType(n, a.name) EXCEPT !.types = a.types]

\* u is what the read of t->ptr.type yields when t is no pointer type: the
\* source goes on after reporting the error, so the read is of a union member
\* that was never written
struct_deref_type_infer(n, u) ==
    LET sou    == ast[n].args[1]
        member == ast[n].args[2]
    IN IF ty[n] # NoType THEN Done
       ELSE IF ty[sou] = NoType THEN Done
       ELSE LET t  == type_base(ty[sou])
                t2 == IF types[t].ttype = "T_POINTER" THEN type_base(types[t].of)
                      ELSE u
            IN IF t2 = "crash" THEN [Done EXCEPT !.ret = "crash"]
               ELSE IF types[t2].ttype # "T_STRUCT" THEN Err
               ELSE LET f == tfields_get(types[t2].fields, ast[member].data)
                    IN IF f = 0 THEN Err
                       ELSE SetType(n, types[t2].fields[f].type)

struct_dot_type_infer(n) ==
    LET sou    == ast[n].args[1]
        member == ast[n].args[2]
    IN IF ty[n] # NoType THEN Done
       ELSE IF ty[sou] = NoType THEN Done
       ELSE LET t == type_base(ty[sou])
            IN IF types[t].ttype # "T_STRUCT" THEN Err
               ELSE LET f == tfields_get(types[t].fields, ast[member].data)
                    IN IF f = 0 THEN Err
                       ELSE [SetType(n, types[t].fields[f].type)
                                EXCEPT !.virt = virt \cup {member}]

deref_type_infer(n) ==
    LET ptr == ast[n].args[1]
    IN IF ty[n] # NoType \/ ty[ptr] = NoType THEN Done
       ELSE LET t == type_base(ty[ptr])
            IN IF types[t].ttype # "T_POINTER" THEN Err
               ELSE SetType(n, types[t].of)

subscript_type_infer_up(n) ==
    LET src    == ast[n].args[1]
        key    == ast[n].args[2]
        t      == type_base(ty[src])
        scalar == types[type_base(ty[key])].ttype = "T_SCALAR"
    IN IF ~scalar /\ types[t].ttype \in {"T_ARRAY", "T_POINTER"} THEN Err
       ELSE IF types[t].ttype \in {"T_ARRAY", "T_POINTER", "T_MAP"}
            THEN SetType(n, types[t].of)
       ELSE Err

subscript_type_infer_down(n) ==
    LET src == ast[n].args[1]
        key == ast[n].args[2]
        m   == type_map_of(ty[key], ty[n])
    IN [SetType(src, m.name) EXCEPT !.types = m.types]

subscript_type_infer(n) ==
    LET src == ast[n].args[1]
        key == ast[n].args[2]
    IN IF ty[key] = NoType THEN Done
       ELSE IF ty[n] = NoType /\ ty[src] # NoType THEN subscript_type_infer_up(n)
       ELSE IF ty[n] # NoType /\ ty[src] = NoType THEN subscript_type_infer_down(n)
       ELSE Done

\* the name standing for the address of the struct type allocated next: no two
\* allocations share one
AnonName(n) == ":anon_" \o n \o "#" \o ToString(Cardinality(DOMAIN types))

struct_type_infer(n) ==
    LET args   == ast[n].args
        fields == [i \in 1 .. Len(args) |-> Field("f" \o ToString(i - 1), ty[args[i]])]
        t      == AnonName(n)
    IN IF \E i \in 1 .. Len(args) : type_sizeof(ty[args[i]]) < 0 THEN Done
       ELSE [SetType(n, t) EXCEPT
               !.types = types @@ [x \in {t} |-> StructDescIn(types, fields)]]

assign_type_infer(n) ==
    LET lval == ast[n].args[1]
        rval == ast[n].args[2]
    IN IF ty[n] # NoType THEN Done
       ELSE IF ty[rval] = NoType THEN Done
       ELSE IF ty[lval] = NoType
            THEN [Done EXCEPT !.ty = [ty EXCEPT ![lval] = ty[rval], ![n] = "void"]]
       ELSE IF type_compatible(ty[lval], ty[rval]) THEN SetType(n, "void")
       ELSE Err

\* whether the known operand types of n contradict the type rule of its operator
Contradicts(n) ==
    LET a   == ast[n].args
        op  == ast[n].op
        known(i) == ty[a[i]] # NoType
        tt(i)    == types[type_base(ty[a[i]])].ttype
        noMember(st) == tfields_get(types[st].fields, ast[a[2]].data) = 0
    IN CASE op = "strcmp" ->
              known(1) /\ known(2) /\ \E i \in 1 .. 2 : ~type_is_string(ty[a[i]])
         [] op = "->" ->
              known(1) /\ (\/ tt(1) # "T_POINTER"
                           \/ types[types[ty[a[1]]].of].ttype # "T_STRUCT"
                           \/ noMember(types[ty[a[1]]].of))
         [] op = "u*" -> known(1) /\ tt(1) # "T_POINTER"
         [] op = "." ->
              known(1) /\ (tt(1) # "T_STRUCT" \/ noMember(ty[a[1]]))
         [] op = "[]" ->
              known(1) /\ known(2) /\ tt(1) \in {"T_ARRAY", "T_POINTER"}
                 /\ tt(2) # "T_SCALAR"
         [] op = "=" -> known(1) /\ known(2) /\ ~type_compatible(ty[a[1]], ty[a[2]])
         [] op \in {"mem", "str"} ->
              /\ known(1) /\ (Len(a) = 2 => known(2))
              /\ \/ type_sizeof(ty[a[1]]) > PtrSize
                 \/ Len(a) = 2 /\ ast[a[2]].ntype # "N_NUM"
                 \/ Len(a) = 2 /\ ast[a[2]].num > MAX_BPF_STACK
         [] OTHER -> FALSE

\* one invocation of a type_infer hook on node n
Invoke(n, res) ==
    /\ scen.kind = "infer" /\ ret = "ok"
    /\ ret' = res.ret /\ ty' = res.ty /\ types' = res.types /\ virt' = res.virt
    /\ ghost' = [invoked |-> TRUE, n |-> n, wasTyped |-> ty[n] # NoType,
                 contra |-> Contradicts(n), ty |-> ty, types |-> types, virt |-> virt]
    /\ UNCHANGED <<scen, todo, cgvars, mvars, ast>>

MaxAnon == 2

InferStrcmp    == \E n \in Nodes("strcmp") : Invoke(n, strcmp_type_infer(n))
InferMem       == \E n \in Nodes("mem") : Invoke(n, mem_type_infer(n))
InferStr       == \E n \in Nodes("str") : Invoke(n, mem_type_infer(n))
InferArrow     == \E n \in Nodes("->") : \E u \in {"crash"} \cup DOMAIN types :
                     Invoke(n, struct_deref_type_infer(n, u))
InferDot       == \E n \in Nodes(".") : Invoke(n, struct_dot_type_infer(n))
InferDeref     == \E n \in Nodes("u*") : Invoke(n, deref_type_infer(n))
InferSubscript == \E n \in Nodes("[]") : Invoke(n, subscript_type_infer(n))
InferStruct    == \E n \in Nodes(":struct") :
                     /\ Cardinality(DOMAIN types) < Cardinality(DOMAIN BaseTypes) + 2 + MaxAnon
                     /\ Invoke(n, struct_type_infer(n))
InferAssign    == \E n \in Nodes("=") : Invoke(n, assign_type_infer(n))

\* the graphs inference starts from: one operator over leaves of every type,
\* and the two assignments `m[k1] = v1; m[k2] = v2`
LeafTypes == {"int", "char[2]", "S", "S*", "int*", NoType}

Expr(op, args) == Node(op, args, "N_EXPR", 0, "")
Ident          == Node("ident", <<>>, "N_EXPR", 0, "")
Num(v)         == Node("num", <<>>, "N_NUM", v, "")
Str(data)      == Node("string", <<>>, "N_STRING", 0, data)

Operands == ({Ident} \X LeafTypes) \cup {<<Str("ab"), "char[2]">>}

Graph(a, t) == [ast |-> a, ty |-> t]

StructGraphs ==
    {Graph(("n" :> Expr(":struct", <<"x">>)) @@ ("x" :> Ident),
           ("n" :> NoType) @@ ("x" :> tx)) : tx \in {"char", "int", NoType}}
    \cup {Graph(("n" :> Expr(":struct", <<"x", "y">>)) @@ ("x" :> Ident) @@ ("y" :> Ident),
                ("n" :> NoType) @@ ("x" :> tx) @@ ("y" :> t2))
             : tx \in {"char", "int"}, t2 \in {"char", "int", NoType}}

StrcmpGraphs ==
    {Graph(("n" :> Expr("strcmp", <<"x", "y">>)) @@ ("x" :> x[1]) @@ ("y" :> y[1]),
           ("n" :> NoType) @@ ("x" :> x[2]) @@ ("y" :> y[2]))
        : x \in Operands, y \in Operands}

Lengths == {<<Num(2), "int">>, <<Num(MAX_BPF_STACK + 1), "int">>,
            <<Ident, "int">>, <<Ident, NoType>>}

MemGraphs ==
    {Graph(("n" :> Expr(op, <<"x">>)) @@ ("x" :> Ident), ("n" :> NoType) @@ ("x" :> tx))
        : op \in {"mem", "str"}, tx \in {"long", "S*", "S", NoType}}
    \cup {Graph(("n" :> Expr(op, <<"x", "y">>)) @@ ("x" :> Ident) @@ ("y" :> l[1]),
                ("n" :> NoType) @@ ("x" :> tx) @@ ("y" :> l[2]))
             : op \in {"mem", "str"}, tx \in {"long", "S*", "S", NoType}, l \in Lengths}

MemberGraphs ==
    {Graph(("n" :> Expr(op, <<"x", "y">>)) @@ ("x" :> Ident) @@ ("y" :> Str(m)),
           ("n" :> NoType) @@ ("x" :> tx) @@ ("y" :> "char[2]"))
        : op \in {"->", "."}, tx \in LeafTypes, m \in {"f1", "zz"}}

DerefGraphs ==
    {Graph(("n" :> Expr("u*", <<"x">>)) @@ ("x" :> Ident), ("n" :> NoType) @@ ("x" :> tx))
        : tx \in LeafTypes}

SubscriptGraphs ==
    {Graph(("n" :> Expr("[]", <<"x", "y">>)) @@ ("x" :> Ident) @@ ("y" :> Ident),
           ("n" :> NoType) @@ ("x" :> tx) @@ ("y" :> tk))
        : tx \in {"int[2]", "int*", MapName("int", "int"), "int", NoType},
          tk \in {"int", "S", NoType}}

AssignGraphs ==
    {Graph(("n" :> Expr("=", <<"x", "y">>)) @@ ("x" :> Ident) @@ ("y" :> Ident),
           ("n" :> NoType) @@ ("x" :> tx) @@ ("y" :> t2))
        : tx \in LeafTypes, t2 \in LeafTypes}

TwoAssignGraphs ==
    {Graph(("m" :> Ident) @@ ("k1" :> Num(1)) @@ ("v1" :> Num(1))
              @@ ("s1" :> Expr("[]", <<"m", "k1">>)) @@ ("a1" :> Expr("=", <<"s1", "v1">>))
              @@ ("k2" :> Num(2)) @@ ("v2" :> v[1])
              @@ ("s2" :> Expr("[]", <<"m", "k2">>)) @@ ("a2" :> Expr("=", <<"s2", "v2">>)),
           ("m" :> NoType) @@ ("k1" :> "int") @@ ("v1" :> "int") @@ ("s1" :> NoType)
              @@ ("a1" :> NoType) @@ ("k2" :> "int") @@ ("v2" :> v[2])
              @@ ("s2" :> NoType) @@ ("a2" :> NoType))
        : v \in {<<Num(2), "int">>, <<Str("ab"), "char[2]">>}}

Graphs == StructGraphs \cup StrcmpGraphs \cup MemGraphs \cup MemberGraphs
             \cup DerefGraphs \cup SubscriptGraphs \cup AssignGraphs \cup TwoAssignGraphs

\* the registry inference starts with
InferTypes ==
    BaseTypes @@ [t \in {"int[2]"} |-> TDesc("T_ARRAY", 8, 4, "int", NoType, <<>>)]
              @@ [t \in {MapName("int", "int")} |-> TDesc("T_MAP", 8, 8, "int", "int", <<>>)]

InitInfer ==
    \E g \in Graphs :
       /\ scen = [kind |-> "infer", garbage |-> Dirty, charUnsigned |-> FALSE]
       /\ ast = g.ast
       /\ ty = g.ty
       /\ types = InferTypes
       /\ virt = {}
       /\ ret = "ok"
       /\ ghost = [invoked |-> FALSE, n |-> "", wasTyped |-> FALSE, contra |-> FALSE,
                   ty |-> g.ty, types |-> InferTypes, virt |-> {}]
       /\ todo = <<>>
       /\ irs = [x \in DOMAIN g.ast |-> NoIrs]
       /\ sp = 0 /\ nreg = FirstFreeReg /\ nlabel = 0 /\ prog = <<>>
       /\ pc = 1 /\ regs = <<>> /\ mem = <<>> /\ kmap = <<>>

NextInfer == InferStrcmp \/ InferMem \/ InferStr \/ InferArrow \/ InferDot
                \/ InferDeref \/ InferSubscript \/ InferStruct \/ InferAssign

SpecInfer == InitInfer /\ [][NextInfer]_vars

IsInfer == scen.kind = "infer" /\ ghost.invoked

\* C4: a type_infer hook invoked on a node whose known operand types
\* contradict the type rule of its operator returns an error at once and
\* leaves the type of the node's symbol unset
C4_ContradictionIsError ==
    (IsInfer /\ ~ghost.wasTyped /\ ghost.contra) =>
        (ret = "EINVAL" /\ ty[ghost.n] = NoType)

\* C5: a type_infer hook invoked on a node whose symbol type is already set
\* changes nothing: no symbol type, no other symbol field, not the registry
C5_InferIdempotent ==
    (IsInfer /\ ghost.wasTyped) =>
        (ty = ghost.ty /\ types = ghost.types /\ virt = ghost.virt)

InferDone == \A n \in DOMAIN ast : ty[n] # NoType

\* C6: when inference of two assignments to one map completes without an
\* error, both subscript nodes have the value type of the map
C6_MapValueTypeFixed ==
    (scen.kind = "infer" /\ "s2" \in DOMAIN ast /\ InferDone /\ ret = "ok") =>
        (ty["s1"] = types[ty["m"]].of /\ ty["s2"] = types[ty["m"]].of)

-----------------------------------------------------------------------------
(* The rewrite pass.  ast is the expression tree; the pass invokes the       *)
(* rewrite hook of a `->` node and substitutes what it builds for the node.  *)

node_expr(func, args)  == [ntype |-> "N_EXPR", func |-> func, args |-> args]
node_expr_ident(func)  == node_expr(func, <<>>)
node_string(data)      == [ntype |-> "N_STRING", data |-> data, args |-> <<>>]

RECURSIVE SubtreeAt(_, _)
SubtreeAt(t, path) ==
    IF path = <<>> THEN t ELSE SubtreeAt(t.args[Head(path)], Tail(path))

RECURSIVE node_replace(_, _, _)
node_replace(t, path, new) ==
    IF path = <<>> THEN new
    ELSE [t EXCEPT !.args[Head(path)] = node_replace(@, Tail(path), new)]

\* the subtree struct_deref_rewrite builds for the node n
struct_deref_new(n) ==
    LET sou    == n.args[1]
        member == n.args[2]
    IN node_expr(".", <<node_expr("u*", <<node_expr_ident(sou.func)>>),
                        node_string(member.data)>>)

\* where the `->` operators of a tree are (an identifier has no arguments)
RECURSIVE ArrowPaths(_)
ArrowPaths(t) ==
    (IF t.ntype = "N_EXPR" /\ t.func = "->" /\ t.args # <<>> THEN {<<>>} ELSE {})
       \cup UNION {{<<i>> \o q : q \in ArrowPaths(t.args[i])} : i \in 1 .. Len(t.args)}

struct_deref_rewrite ==
    /\ scen.kind = "rewrite"
    /\ \E path \in ArrowPaths(ast) :
          LET n == SubtreeAt(ast, path)
          IN /\ ast' = node_replace(ast, path, struct_deref_new(n))
             /\ ghost' = [rewritten |-> TRUE, p |-> n.args[1], m |-> n.args[2].data,
                          new |-> struct_deref_new(n)]
    /\ UNCHANGED <<scen, todo, cgvars, mvars, types, ty, virt, ret>>

MaxDepth == 2
Idents   == {"p", "q"}
Members  == {"m", "b"}

\* the expressions of at most d operators nested
RECURSIVE Exprs(_)
Exprs(d) ==
    IF d = 0 THEN {node_expr_ident(i) : i \in Idents}
    ELSE LET E == Exprs(d - 1)
         IN E \cup {node_expr("->", <<e, node_string(m)>>) : e \in E, m \in Members}
              \cup {node_expr(".", <<e, node_string(m)>>) : e \in E, m \in Members}
              \cup {node_expr("u*", <<e>>) : e \in E}
              \cup {node_expr("[]", <<e, node_expr_ident(i)>>) : e \in E, i \in Idents}

InitRewrite ==
    \E e \in Exprs(MaxDepth), m \in Members :
       /\ scen = [kind |-> "rewrite", garbage |-> Dirty, charUnsigned |-> FALSE]
       /\ ast = node_expr("->", <<e, node_string(m)>>)
       /\ ghost = [rewritten |-> FALSE, p |-> e, m |-> m, new |-> e]
       /\ types = BaseTypes /\ ty = <<>> /\ virt = {} /\ ret = "ok"
       /\ todo = <<>> /\ irs = <<>>
       /\ sp = 0 /\ nreg = FirstFreeReg /\ nlabel = 0 /\ prog = <<>>
       /\ pc = 1 /\ regs = <<>> /\ mem = <<>> /\ kmap = <<>>

SpecRewrite == InitRewrite /\ [][struct_deref_rewrite]_vars

\* C7: the subtree the rewrite hook substitutes for `p->m` is `.`(`u*`(p), m)
\* with the subtree of p preserved, whether p is an identifier or a compound
\* expression
C7_RewriteKeepsOperand ==
    (scen.kind = "rewrite" /\ ghost.rewritten) =>
        ghost.new = node_expr(".", <<node_expr("u*", <<ghost.p>>), node_string(ghost.m)>>)

-----------------------------------------------------------------------------
(* The key argument of the map helper calls *)

MapHelpers == {"map_lookup_elem", "map_update_elem", "map_delete_elem"}

\* the machine is about to run a map helper call of the statement's code
AtMapCall ==
    /\ scen.kind = "map" /\ todo = <<>> /\ ret = "ok"
    /\ pc \in 1 .. Len(prog)
    /\ prog[pc].op = "CALL" /\ prog[pc].fn \in MapHelpers

\* C11: at every map helper call emitted by this file (lookup of a subscript
\* read, update of an assignment, delete of a delete) the key argument register
\* holds frame base + the stack offset of the key symbol, and the key symbol is
\* placed on the stack at that offset
C11_KeyOnStackAtCall ==
    AtMapCall =>
        /\ irs["key"].loc = "STACK"
        /\ regs[BPF_REG_2] = FrameTop + irs["key"].stack
        /\ InFrame(regs[BPF_REG_2], MapKeySize)

====
